---------------------------- MODULE Spec2Model ----------------------------
(***************************************************************************)
(* A model of mcp-server-bluesky-py.                                       *)
(*                                                                         *)
(*  - ProxySpec / FairProxySpec: mcp_wrapper.py, the stdin/stdout proxy    *)
(*    (main thread, the two daemon pump threads, the child process and     *)
(*    the host as environment).                                            *)
(*  - ServerSpec: bluesky_mcp.py, the tool server: the client singleton    *)
(*    and the tool operations, one invocation at a time.                   *)
(*  - FormatSpec: bluesky_mcp.py, format_post and format_notification      *)
(*    applied to object-style and mapping-style sources.                   *)
(*  - OverlappingServerSpec: the tool server under a host that runs tool  *)
(*    functions in parallel.                                               *)
(*  - CallSpec: bluesky_mcp.py, the bodies of reply_to_post and of the     *)
(*    tools that take a limit or a depth, with what they pass to the       *)
(*    remote API.                                                          *)
(***************************************************************************)
EXTENDS Integers, Sequences, FiniteSets, TLC

(***************************************************************************)
(* Bounds                                                                  *)
(***************************************************************************)
\* number of bytes the host and the child write, taken together
MaxBytes == 2
\* number of tool invocations in one server process
MaxCalls == 3

(***************************************************************************)
(* Bytes                                                                   *)
(***************************************************************************)
\* b'\r'
CR == 13
\* b'\n'
LF == 10
\* any other byte (b'h')
OtherByte == 104
Bytes == {CR, LF, OtherByte}
\* the bytes the host writes in the model
HostBytes == {CR, OtherByte}
\* the exit codes the child returns in the model
ExitCodes == {0, 1}

VARIABLES
    \* ---- mcp_wrapper.py ----
    hostSent,     \* every byte the host has written to the proxy's stdin
    hostClosed,   \* the host has closed the proxy's stdin (end-of-stream)
    inRead,       \* how many bytes of hostSent forward_stdin has read
    inData,       \* forward_stdin's local `data`: <<>> is b''
    inPc,         \* forward_stdin's position
    inExit,       \* how forward_stdin left its loop: "none", "eof", "error"
    childStdin,   \* every byte written to process.stdin
    inFlushed,    \* how many bytes of childStdin have been flushed
    stdinState,   \* process.stdin: "open", "closed", "closefailed"
    childSent,    \* every byte the child has written to its stdout
    childState,   \* "running" or "exited"
    childRc,      \* process.returncode: <<>> is None
    outRead,      \* how many bytes of childSent forward_stdout has read
    outData,      \* forward_stdout's local `data`
    outPc,        \* forward_stdout's position
    outExit,      \* how forward_stdout left its loop
    hostOut,      \* every byte written to sys.stdout.buffer
    outFlushed,   \* how many bytes of hostOut have been flushed
    mainPc,       \* main's position: "wait", "join", "exited"
    proxyRc,      \* the proxy's exit code: <<>> while it runs
    \* ---- bluesky_mcp.py: the client singleton and the tools ----
    envHandle,    \* os.getenv("BLUESKY_HANDLE"): <<>> is None
    envPassword,  \* os.getenv("BLUESKY_PASSWORD")
    client,       \* BlueskyClient._client: 0 is None, else the object's id
    loggedIn,     \* BlueskyClient._logged_in
    clientsCreated, \* how many Client() objects have been constructed
    loginCalls,   \* how many times client.login has been called
    loginOk,      \* how many of these calls returned
    apiCalls,     \* how many other remote API calls have been issued
    started,      \* how many tool invocations have started
    pc,           \* each caller's position in its tool invocation
    op,           \* the tool each caller runs
    got,          \* the tool's local `client`: what get_client() returned
    step,         \* the index of the tool's next remote call
    remoteFailed, \* a remote API call of the invocation raised
    outcome,      \* how the invocation ended
    \* ---- bluesky_mcp.py: format_post and format_notification ----
    fmtFn,        \* the function applied: "post" or "notification"
    fmtIn,        \* its argument: post_data or notif
    fmtCtx,       \* format_post's include_reply_context
    fmtOut,       \* the dict it returned
    fmtPc,        \* "ready", then "done"
    \* ---- bluesky_mcp.py: the body of one tool call ----
    callOp,       \* the tool
    callArg,      \* its limit or depth argument
    callThread,   \* the post the remote API holds for post_uri
    callPc,       \* the position in the tool's body
    callParent,   \* reply_to_post's local `parent`
    callRef,      \* reply_to_post's local `reply_ref`
    callSentLimit, \* the limit or depth values passed to the remote API
    callSentReply, \* the reply_to values passed to client.send_post
    callFetches,  \* how many times client.get_post_thread was called
    callOutcome   \* how the call ended

proxyVars == <<hostSent, hostClosed, inRead, inData, inPc, inExit, childStdin,
               inFlushed, stdinState, childSent, childState, childRc, outRead,
               outData, outPc, outExit, hostOut, outFlushed, mainPc, proxyRc>>

serverVars == <<envHandle, envPassword, client, loggedIn, clientsCreated,
                loginCalls, loginOk, apiCalls, started, pc, op, got, step,
                remoteFailed, outcome>>

formatVars == <<fmtFn, fmtIn, fmtCtx, fmtOut, fmtPc>>

callVars == <<callOp, callArg, callThread, callPc, callParent, callRef,
              callSentLimit, callSentReply, callFetches, callOutcome>>

vars == <<proxyVars, serverVars, formatVars, callVars>>

notProxyVars == <<serverVars, formatVars, callVars>>
notServerVars == <<proxyVars, formatVars, callVars>>
notFormatVars == <<proxyVars, serverVars, callVars>>
notCallVars == <<proxyVars, serverVars, formatVars>>

(***************************************************************************)
(* mcp_wrapper.py                                                          *)
(***************************************************************************)
\* what is left in a pipe: the bytes sent and not yet read
Pending(sent, nread) == SubSeq(sent, nread + 1, Len(sent))

\* the daemon threads run only while the interpreter (the main thread) lives
ProxyAlive == mainPc # "exited"

\* ---- the environment: the host and the child ----
HostWrite ==
    /\ ProxyAlive /\ ~hostClosed
    /\ Len(hostSent) + Len(childSent) < MaxBytes
    /\ \E b \in HostBytes : hostSent' = Append(hostSent, b)
    /\ UNCHANGED <<hostClosed, inRead, inData, inPc, inExit, childStdin,
                   inFlushed, stdinState, childSent, childState, childRc,
                   outRead, outData, outPc, outExit, hostOut, outFlushed,
                   mainPc, proxyRc>>
    /\ UNCHANGED notProxyVars

HostClose ==
    /\ ProxyAlive /\ ~hostClosed
    /\ hostClosed' = TRUE
    /\ UNCHANGED <<hostSent, inRead, inData, inPc, inExit, childStdin,
                   inFlushed, stdinState, childSent, childState, childRc,
                   outRead, outData, outPc, outExit, hostOut, outFlushed,
                   mainPc, proxyRc>>
    /\ UNCHANGED notProxyVars

ChildWrite ==
    /\ ProxyAlive /\ childState = "running"
    /\ Len(hostSent) + Len(childSent) < MaxBytes
    /\ \E b \in Bytes : childSent' = Append(childSent, b)
    /\ UNCHANGED <<hostSent, hostClosed, inRead, inData, inPc, inExit,
                   childStdin, inFlushed, stdinState, childState, childRc,
                   outRead, outData, outPc, outExit, hostOut, outFlushed,
                   mainPc, proxyRc>>
    /\ UNCHANGED notProxyVars

ChildExit ==
    /\ childState = "running"
    /\ childState' = "exited"
    /\ \E rc \in ExitCodes : childRc' = <<rc>>
    /\ UNCHANGED <<hostSent, hostClosed, inRead, inData, inPc, inExit,
                   childStdin, inFlushed, stdinState, childSent, outRead,
                   outData, outPc, outExit, hostOut, outFlushed, mainPc,
                   proxyRc>>
    /\ UNCHANGED notProxyVars

\* ---- forward_stdin ----
\* `except Exception: pass` of the loop, then the finally block
AfterInErrorSkipsClose == "done"
AfterInError == "close"

\* `except Exception: pass` around process.stdin.close()
AfterCloseErrorEscapes == "crashed"
AfterCloseError == "done"

\* the byte handed to process.stdin.write
InWrittenDropsCR(data) == SelectSeq(data, LAMBDA b : b # CR)
InWritten(data) == data

\* the position after process.stdin.write(data)
AfterInWrite == "flush"

\* data = sys.stdin.buffer.read(1); if not data: break
InReadStep ==
    /\ ProxyAlive /\ inPc = "read"
    /\ \/ /\ Pending(hostSent, inRead) # <<>>
          /\ inData' = <<hostSent[inRead + 1]>>
          /\ inRead' = inRead + 1
          /\ inPc' = "write"
          /\ UNCHANGED inExit
       \/ /\ Pending(hostSent, inRead) = <<>> /\ hostClosed
          /\ inData' = <<>>
          /\ inPc' = "close"
          /\ inExit' = "eof"
          /\ UNCHANGED inRead
    /\ UNCHANGED <<hostSent, hostClosed, childStdin, inFlushed, stdinState,
                   childSent, childState, childRc, outRead, outData, outPc,
                   outExit, hostOut, outFlushed, mainPc, proxyRc>>
    /\ UNCHANGED notProxyVars

\* process.stdin.write(data): the pipe has a reader only while the child runs
InWriteStep ==
    /\ ProxyAlive /\ inPc = "write" /\ childState = "running"
    /\ childStdin' = childStdin \o InWritten(inData)
    /\ inPc' = AfterInWrite
    /\ UNCHANGED <<hostSent, hostClosed, inRead, inData, inExit, inFlushed,
                   stdinState, childSent, childState, childRc, outRead,
                   outData, outPc, outExit, hostOut, outFlushed, mainPc,
                   proxyRc>>
    /\ UNCHANGED notProxyVars

\* process.stdin.flush()
InFlushStep ==
    /\ ProxyAlive /\ inPc = "flush"
    /\ inFlushed' = Len(childStdin)
    /\ inPc' = "read"
    /\ UNCHANGED <<hostSent, hostClosed, inRead, inData, inExit, childStdin,
                   stdinState, childSent, childState, childRc, outRead,
                   outData, outPc, outExit, hostOut, outFlushed, mainPc,
                   proxyRc>>
    /\ UNCHANGED notProxyVars

\* an exception raised by the read, the write or the flush
InFail ==
    /\ ProxyAlive /\ inPc \in {"read", "write", "flush"}
    /\ inPc' = AfterInError
    /\ inExit' = "error"
    /\ UNCHANGED <<hostSent, hostClosed, inRead, inData, childStdin,
                   inFlushed, stdinState, childSent, childState, childRc,
                   outRead, outData, outPc, outExit, hostOut, outFlushed,
                   mainPc, proxyRc>>
    /\ UNCHANGED notProxyVars

\* finally: process.stdin.close()
InClose ==
    /\ ProxyAlive /\ inPc = "close"
    /\ stdinState' = "closed"
    /\ inPc' = "done"
    /\ UNCHANGED <<hostSent, hostClosed, inRead, inData, inExit, childStdin,
                   inFlushed, childSent, childState, childRc, outRead,
                   outData, outPc, outExit, hostOut, outFlushed, mainPc,
                   proxyRc>>
    /\ UNCHANGED notProxyVars

\* process.stdin.close() raises
InCloseFail ==
    /\ ProxyAlive /\ inPc = "close"
    /\ stdinState' = "closefailed"
    /\ inPc' = AfterCloseError
    /\ UNCHANGED <<hostSent, hostClosed, inRead, inData, inExit, childStdin,
                   inFlushed, childSent, childState, childRc, outRead,
                   outData, outPc, outExit, hostOut, outFlushed, mainPc,
                   proxyRc>>
    /\ UNCHANGED notProxyVars

\* ---- forward_stdout ----
\* `except Exception: pass` of the loop
AfterOutError == "done"

\* if data != b'\r': the bytes that are not written to the host
SkippedNothing(data) == FALSE
Skipped(data) == data = <<CR>>

\* data = process.stdout.read(1); if not data: break; if data != b'\r'
OutReadStep ==
    /\ ProxyAlive /\ outPc = "read"
    /\ \/ /\ Pending(childSent, outRead) # <<>>
          /\ outData' = <<childSent[outRead + 1]>>
          /\ outRead' = outRead + 1
          /\ outPc' = IF Skipped(outData') THEN "read" ELSE "write"
          /\ UNCHANGED outExit
       \/ /\ Pending(childSent, outRead) = <<>> /\ childState = "exited"
          /\ outData' = <<>>
          /\ outPc' = "done"
          /\ outExit' = "eof"
          /\ UNCHANGED outRead
    /\ UNCHANGED <<hostSent, hostClosed, inRead, inData, inPc, inExit,
                   childStdin, inFlushed, stdinState, childSent, childState,
                   childRc, hostOut, outFlushed, mainPc, proxyRc>>
    /\ UNCHANGED notProxyVars

\* sys.stdout.buffer.write(data)
OutWriteStep ==
    /\ ProxyAlive /\ outPc = "write"
    /\ hostOut' = hostOut \o outData
    /\ outPc' = "flush"
    /\ UNCHANGED <<hostSent, hostClosed, inRead, inData, inPc, inExit,
                   childStdin, inFlushed, stdinState, childSent, childState,
                   childRc, outRead, outData, outExit, outFlushed, mainPc,
                   proxyRc>>
    /\ UNCHANGED notProxyVars

\* sys.stdout.buffer.flush()
OutFlushStep ==
    /\ ProxyAlive /\ outPc = "flush"
    /\ outFlushed' = Len(hostOut)
    /\ outPc' = "read"
    /\ UNCHANGED <<hostSent, hostClosed, inRead, inData, inPc, inExit,
                   childStdin, inFlushed, stdinState, childSent, childState,
                   childRc, outRead, outData, outExit, hostOut, mainPc,
                   proxyRc>>
    /\ UNCHANGED notProxyVars

\* an exception raised by the read, the write or the flush
OutFail ==
    /\ ProxyAlive /\ outPc \in {"read", "write", "flush"}
    /\ outPc' = AfterOutError
    /\ outExit' = "error"
    /\ UNCHANGED <<hostSent, hostClosed, inRead, inData, inPc, inExit,
                   childStdin, inFlushed, stdinState, childSent, childState,
                   childRc, outRead, outData, hostOut, outFlushed, mainPc,
                   proxyRc>>
    /\ UNCHANGED notProxyVars

\* ---- main ----
\* process.wait() returns once the child has exited
WaitReturns == childState = "exited"

\* stdout_thread.join(timeout=1) returns when the thread has ended or when
\* the timeout has elapsed
JoinReturnsNoTimeout(timeout) == outPc \in {"done", "crashed"}
JoinReturns(timeout) == outPc \in {"done", "crashed"} \/ timeout

\* main returns nothing: the interpreter exits with status 0
ExitStatus == <<0>>

MainWait ==
    /\ mainPc = "wait" /\ WaitReturns
    /\ mainPc' = "join"
    /\ UNCHANGED <<hostSent, hostClosed, inRead, inData, inPc, inExit,
                   childStdin, inFlushed, stdinState, childSent, childState,
                   childRc, outRead, outData, outPc, outExit, hostOut,
                   outFlushed, proxyRc>>
    /\ UNCHANGED notProxyVars

MainJoin ==
    /\ mainPc = "join"
    /\ \E timeout \in BOOLEAN : JoinReturns(timeout)
    /\ mainPc' = "exited"
    /\ proxyRc' = ExitStatus
    /\ UNCHANGED <<hostSent, hostClosed, inRead, inData, inPc, inExit,
                   childStdin, inFlushed, stdinState, childSent, childState,
                   childRc, outRead, outData, outPc, outExit, hostOut,
                   outFlushed>>
    /\ UNCHANGED notProxyVars

ProxyNext ==
    \/ HostWrite \/ HostClose \/ ChildWrite \/ ChildExit
    \/ InReadStep \/ InWriteStep \/ InFlushStep \/ InFail \/ InClose
    \/ InCloseFail
    \/ OutReadStep \/ OutWriteStep \/ OutFlushStep \/ OutFail
    \/ MainWait \/ MainJoin

(***************************************************************************)
(* bluesky_mcp.py: BlueskyClient and the tools                             *)
(***************************************************************************)
\* the callers of the tool server
Callers == {1, 2}

\* what os.getenv returns: None, the empty string, a value
EnvValues == {<<>>, <<"">>, <<"x">>}

\* the functions registered with @mcp.tool()
Tools == {"send_post", "reply_to_post", "delete_post", "get_timeline",
          "get_author_feed", "get_post_thread", "like_post", "unlike_post",
          "repost", "unrepost", "get_notifications", "get_unread_count",
          "get_profile", "get_my_profile", "follow_user", "unfollow_user",
          "search_posts", "search_users"}

\* the remote API calls a tool issues, in order
RemoteCalls(o) ==
    CASE o = "send_post"         -> <<"send_post">>
      [] o = "reply_to_post"     -> <<"get_post_thread", "send_post">>
      [] o = "delete_post"       -> <<"delete_post">>
      [] o = "get_timeline"      -> <<"get_timeline">>
      [] o = "get_author_feed"   -> <<"get_author_feed">>
      [] o = "get_post_thread"   -> <<"get_post_thread">>
      [] o = "like_post"         -> <<"get_post_thread", "like">>
      [] o = "unlike_post"       -> <<"unlike">>
      [] o = "repost"            -> <<"get_post_thread", "repost">>
      [] o = "unrepost"          -> <<"unrepost">>
      [] o = "get_notifications" -> <<"list_notifications", "update_seen">>
      [] o = "get_unread_count"  -> <<"get_unread_count">>
      [] o = "get_profile"       -> <<"get_profile">>
      [] o = "get_my_profile"    -> <<"get_profile">>
      [] o = "follow_user"       -> <<"get_profile", "follow">>
      [] o = "unfollow_user"     -> <<"get_profile", "unfollow">>
      [] o = "search_posts"      -> <<"search_posts">>
      [] o = "search_users"      -> <<"search_actors">>

\* get_notifications calls update_seen only when it is left with unread
\* notifications: its second call may not happen
LastCallOptional(o) == o = "get_notifications"

\* the tools whose remote calls are inside try/except Exception
Catches(o) == o \in {"send_post", "reply_to_post"}

\* how an invocation ends when a remote call raises
OnRemoteError(o) ==
    IF Catches(o) THEN "failure_envelope" ELSE "raised_remote"

\* `not value` of an os.getenv result
FalsyOnlyNone(v) == v = <<>>
Falsy(v) == v = <<>> \/ v = <<"">>

\* if not handle or not password
CredentialsMissing == Falsy(envHandle) \/ Falsy(envPassword)

\* if self._client is None
NeedsClientAlways == TRUE
NeedsClient == client = 0

\* if not self._logged_in
NeedsLoginUnlessInProgress ==
    ~loggedIn /\ \A u \in Callers : pc[u] \notin {"login", "logged_in"}
NeedsLogin == ~loggedIn

\* a tool function is entered: get_client() is its first statement
Start(t) ==
    /\ started < MaxCalls
    /\ started' = started + 1
    /\ \E o \in Tools : op' = [op EXCEPT ![t] = o]
    /\ pc' = [pc EXCEPT ![t] = "get_client"]
    /\ got' = [got EXCEPT ![t] = 0]
    /\ step' = [step EXCEPT ![t] = 0]
    /\ remoteFailed' = [remoteFailed EXCEPT ![t] = FALSE]
    /\ outcome' = [outcome EXCEPT ![t] = "none"]
    /\ UNCHANGED <<envHandle, envPassword, client, loggedIn, clientsCreated,
                   loginCalls, loginOk, apiCalls>>
    /\ UNCHANGED notServerVars

\* a caller invokes a tool while no other invocation is running
Invoke(t) ==
    /\ \A u \in Callers : pc[u] \in {"idle", "done"}
    /\ Start(t)

\* a caller invokes a tool while the other caller's invocation may be
\* running: nothing in the tool functions or in get_client waits for it
InvokeOverlapping(t) ==
    /\ pc[t] \in {"idle", "done"}
    /\ Start(t)

\* if self._client is None
TestClient(t) ==
    /\ pc[t] = "get_client"
    /\ pc' = [pc EXCEPT ![t] = IF NeedsClient THEN "new_client"
                                             ELSE "check_login"]
    /\ UNCHANGED <<envHandle, envPassword, client, loggedIn, clientsCreated,
                   loginCalls, loginOk, apiCalls, started, op, got, step,
                   remoteFailed, outcome>>
    /\ UNCHANGED notServerVars

\* self._client = Client()
CreateClient(t) ==
    /\ pc[t] = "new_client"
    /\ clientsCreated' = clientsCreated + 1
    /\ client' = clientsCreated + 1
    /\ pc' = [pc EXCEPT ![t] = "check_login"]
    /\ UNCHANGED <<envHandle, envPassword, loggedIn, loginCalls, loginOk,
                   apiCalls, started, op, got, step, remoteFailed, outcome>>
    /\ UNCHANGED notServerVars

\* if not self._logged_in: ... raise ValueError(...) / else: return
CheckLogin(t) ==
    /\ pc[t] = "check_login"
    /\ IF ~NeedsLogin
         THEN /\ pc' = [pc EXCEPT ![t] = "body"]
              /\ got' = [got EXCEPT ![t] = client]
              /\ step' = [step EXCEPT ![t] = 1]
              /\ UNCHANGED outcome
         ELSE IF CredentialsMissing
         THEN /\ pc' = [pc EXCEPT ![t] = "done"]
              /\ outcome' = [outcome EXCEPT ![t] = "raised_config"]
              /\ UNCHANGED <<got, step>>
         ELSE /\ pc' = [pc EXCEPT ![t] = "login"]
              /\ UNCHANGED <<got, step, outcome>>
    /\ UNCHANGED <<envHandle, envPassword, client, loggedIn, clientsCreated,
                   loginCalls, loginOk, apiCalls, started, op, remoteFailed>>
    /\ UNCHANGED notServerVars

\* self._client.login(handle, password) returns
LoginOk(t) ==
    /\ pc[t] = "login"
    /\ loginCalls' = loginCalls + 1
    /\ loginOk' = loginOk + 1
    /\ pc' = [pc EXCEPT ![t] = "logged_in"]
    /\ UNCHANGED <<envHandle, envPassword, client, loggedIn, clientsCreated,
                   apiCalls, started, op, got, step, remoteFailed, outcome>>
    /\ UNCHANGED notServerVars

\* self._client.login(handle, password) raises: get_client is called
\* outside the tool's try block
LoginFails(t) ==
    /\ pc[t] = "login"
    /\ loginCalls' = loginCalls + 1
    /\ pc' = [pc EXCEPT ![t] = "done"]
    /\ outcome' = [outcome EXCEPT ![t] = "raised_login"]
    /\ UNCHANGED <<envHandle, envPassword, client, loggedIn, clientsCreated,
                   loginOk, apiCalls, started, op, got, step, remoteFailed>>
    /\ UNCHANGED notServerVars

\* self._logged_in = True; return self._client
SetLoggedIn(t) ==
    /\ pc[t] = "logged_in"
    /\ loggedIn' = TRUE
    /\ got' = [got EXCEPT ![t] = client]
    /\ step' = [step EXCEPT ![t] = 1]
    /\ pc' = [pc EXCEPT ![t] = "body"]
    /\ UNCHANGED <<envHandle, envPassword, client, clientsCreated,
                   loginCalls, loginOk, apiCalls, started, op, remoteFailed,
                   outcome>>
    /\ UNCHANGED notServerVars

\* the tool's next remote API call returns
RemoteCallOk(t) ==
    /\ pc[t] = "body"
    /\ apiCalls' = apiCalls + 1
    /\ \/ /\ step[t] < Len(RemoteCalls(op[t]))
          /\ step' = [step EXCEPT ![t] = step[t] + 1]
          /\ UNCHANGED <<pc, outcome>>
       \/ /\ \/ step[t] = Len(RemoteCalls(op[t]))
             \/ step[t] = Len(RemoteCalls(op[t])) - 1 /\ LastCallOptional(op[t])
          /\ pc' = [pc EXCEPT ![t] = "done"]
          /\ outcome' = [outcome EXCEPT ![t] = "returned"]
          /\ UNCHANGED step
    /\ UNCHANGED <<envHandle, envPassword, client, loggedIn, clientsCreated,
                   loginCalls, loginOk, started, op, got, remoteFailed>>
    /\ UNCHANGED notServerVars

\* the tool's next remote API call raises
RemoteCallFails(t) ==
    /\ pc[t] = "body"
    /\ apiCalls' = apiCalls + 1
    /\ remoteFailed' = [remoteFailed EXCEPT ![t] = TRUE]
    /\ pc' = [pc EXCEPT ![t] = "done"]
    /\ outcome' = [outcome EXCEPT ![t] = OnRemoteError(op[t])]
    /\ UNCHANGED <<envHandle, envPassword, client, loggedIn, clientsCreated,
                   loginCalls, loginOk, started, op, got, step>>
    /\ UNCHANGED notServerVars

ServerNext ==
    \/ \E t \in Callers : Invoke(t)
    \/ \E t \in Callers : TestClient(t)
    \/ \E t \in Callers : CreateClient(t)
    \/ \E t \in Callers : CheckLogin(t)
    \/ \E t \in Callers : LoginOk(t)
    \/ \E t \in Callers : LoginFails(t)
    \/ \E t \in Callers : SetLoggedIn(t)
    \/ \E t \in Callers : RemoteCallOk(t)
    \/ \E t \in Callers : RemoteCallFails(t)

\* the same steps when the host runs tool functions in parallel
OverlappingServerNext ==
    \/ \E t \in Callers : InvokeOverlapping(t)
    \/ \E t \in Callers : TestClient(t)
    \/ \E t \in Callers : CreateClient(t)
    \/ \E t \in Callers : CheckLogin(t)
    \/ \E t \in Callers : LoginOk(t)
    \/ \E t \in Callers : LoginFails(t)
    \/ \E t \in Callers : SetLoggedIn(t)
    \/ \E t \in Callers : RemoteCallOk(t)
    \/ \E t \in Callers : RemoteCallFails(t)

(***************************************************************************)
(* bluesky_mcp.py: format_post and format_notification                     *)
(*                                                                         *)
(* A Python value is a record: a leaf [kind |-> "leaf", v |-> its repr], a *)
(* dict or an object [kind |-> "dict" or "obj", f |-> keys/attributes to   *)
(* values], or a list [kind |-> "list", items |-> a sequence].             *)
(***************************************************************************)
Leaf(r) == [kind |-> "leaf", v |-> r]
PyNone == Leaf("None")
EmptyStr == Leaf("''")
Zero == Leaf("0")
PyFalse == Leaf("False")
PyDict(f) == [kind |-> "dict", f |-> f]
PyList(items) == [kind |-> "list", items |-> items]
NoKeys == [k \in {} |-> PyNone]

\* bool(value)
Truthy(x) ==
    CASE x.kind = "leaf" -> x.v \notin {"None", "''", "0", "False"}
      [] x.kind = "dict" -> DOMAIN x.f # {}
      [] x.kind = "list" -> x.items # <<>>
      [] OTHER -> TRUE

\* hasattr(obj, attr)
HasAttr(x, attr) == x.kind = "obj" /\ attr \in DOMAIN x.f

\* getattr(obj, attr, default)
GetAttr(x, attr, default) == IF HasAttr(x, attr) THEN x.f[attr] ELSE default

\* the local helper get(obj, attr, default=None) of both functions
PyGetWithoutDefault(x, attr, default) ==
    IF x.kind = "dict"
    THEN IF attr \in DOMAIN x.f THEN x.f[attr] ELSE PyNone
    ELSE GetAttr(x, attr, PyNone)
PyGet(x, attr, default) ==
    IF x.kind = "dict"
    THEN IF attr \in DOMAIN x.f THEN x.f[attr] ELSE default
    ELSE GetAttr(x, attr, default)

\* `word in str(embed_type)`, for the embed types of the model
InStr(word, ty) ==
    \/ word = "external" /\ ty = Leaf("'app.bsky.embed.external#view'")
    \/ word = "images" /\ ty = Leaf("'app.bsky.embed.images#view'")

\* the default of author.display_name in format_post
PostDisplayNameDefault(author) == PyGet(author, "handle", EmptyStr)

\* result["embed"], when the post has an embed of a known type
EmbedPart(post) ==
    LET embed == PyGet(post, "embed", PyNone)
        t1 == PyGet(embed, "$type", PyNone)
        embed_type == IF Truthy(t1) THEN t1
                      ELSE GetAttr(embed, "py_type", EmptyStr)
        external == PyGet(embed, "external", PyNone)
        images == PyGet(embed, "images", PyList(<<>>))
    IN  IF ~Truthy(embed) THEN NoKeys
        ELSE IF InStr("external", embed_type) \/ HasAttr(embed, "external")
        THEN "embed" :> PyDict(
                [type |-> Leaf("'link'"),
                 url |-> PyGet(external, "uri", EmptyStr),
                 title |-> PyGet(external, "title", EmptyStr),
                 description |-> PyGet(external, "description", EmptyStr)])
        ELSE IF InStr("images", embed_type) \/ HasAttr(embed, "images")
        THEN "embed" :> PyDict(
                [type |-> Leaf("'images'"),
                 images |-> PyList(
                    [i \in 1..Len(images.items) |->
                        PyDict([url |-> PyGet(images.items[i], "fullsize",
                                              EmptyStr),
                                alt |-> PyGet(images.items[i], "alt",
                                              EmptyStr)])])])
        ELSE NoKeys

\* result["reply_to"], when asked for and the item has a reply parent
ReplyPartIgnoresFlag(post_data, include_reply_context) ==
    LET reply == PyGet(post_data, "reply", PyNone)
        parent == PyGet(reply, "parent", PyNone)
        parent_author == PyGet(parent, "author", PyNone)
        parent_record == PyGet(parent, "record", PyNone)
    IN  IF Truthy(reply) /\ Truthy(parent)
        THEN "reply_to" :> PyDict(
                [uri |-> PyGet(parent, "uri", EmptyStr),
                 author |-> PyGet(parent_author, "handle", EmptyStr),
                 text |-> PyGet(parent_record, "text", EmptyStr)])
        ELSE NoKeys
ReplyPart(post_data, include_reply_context) ==
    LET reply == PyGet(post_data, "reply", PyNone)
        parent == PyGet(reply, "parent", PyNone)
        parent_author == PyGet(parent, "author", PyNone)
        parent_record == PyGet(parent, "record", PyNone)
    IN  IF include_reply_context /\ Truthy(reply) /\ Truthy(parent)
        THEN "reply_to" :> PyDict(
                [uri |-> PyGet(parent, "uri", EmptyStr),
                 author |-> PyGet(parent_author, "handle", EmptyStr),
                 text |-> PyGet(parent_record, "text", EmptyStr)])
        ELSE NoKeys

format_post(post_data, include_reply_context) ==
    LET post == PyGet(post_data, "post", post_data)
        author == PyGet(post, "author", PyNone)
        record == PyGet(post, "record", PyNone)
        result ==
            [uri |-> PyGet(post, "uri", EmptyStr),
             cid |-> PyGet(post, "cid", EmptyStr),
             author |-> PyDict(
                [handle |-> PyGet(author, "handle", EmptyStr),
                 display_name |->
                    PyGet(author, "display_name",
                          PyGet(author, "displayName",
                                PostDisplayNameDefault(author))),
                 avatar |-> PyGet(author, "avatar", EmptyStr)]),
             text |-> PyGet(record, "text", EmptyStr),
             created_at |-> PyGet(record, "created_at",
                                  PyGet(record, "createdAt", EmptyStr)),
             likes |-> PyGet(post, "like_count",
                             PyGet(post, "likeCount", Zero)),
             reposts |-> PyGet(post, "repost_count",
                               PyGet(post, "repostCount", Zero)),
             replies |-> PyGet(post, "reply_count",
                               PyGet(post, "replyCount", Zero)),
             indexed_at |-> PyGet(post, "indexed_at",
                                  PyGet(post, "indexedAt", EmptyStr))]
    IN  PyDict(result @@ EmbedPart(post)
                      @@ ReplyPart(post_data, include_reply_context))

format_notification(notif) ==
    LET author == PyGet(notif, "author", PyNone)
        record == PyGet(notif, "record", PyNone)
    IN  PyDict(
            [uri |-> PyGet(notif, "uri", EmptyStr),
             cid |-> PyGet(notif, "cid", EmptyStr),
             reason |-> PyGet(notif, "reason", EmptyStr),
             author |-> PyDict(
                [handle |-> PyGet(author, "handle", EmptyStr),
                 display_name |->
                    PyGet(author, "display_name",
                          PyGet(author, "displayName", EmptyStr))]),
             record_text |-> PyGet(record, "text", EmptyStr),
             indexed_at |-> PyGet(notif, "indexed_at",
                                  PyGet(notif, "indexedAt", EmptyStr)),
             is_read |-> PyGet(notif, "is_read",
                               PyGet(notif, "isRead", PyFalse)),
             subject_uri |-> PyGet(notif, "reason_subject",
                                   PyGet(notif, "reasonSubject", EmptyStr))])

\* ---- the sources of the model ----
\* which spellings of a field a source carries; "null" is the snake_case
\* spelling present and holding None
AliasModes == {"neither", "snake", "camel", "both", "null"}
\* how a source is held: a mapping or an object
Kinds == {"dict", "obj"}

Mk(kind, f) == [kind |-> kind, f |-> f]
Opt(present, key, value) == IF present THEN key :> value ELSE NoKeys
Alias(mode, snake, camel, v1, v2) ==
    Opt(mode \in {"snake", "both"}, snake, v1)
        @@ Opt(mode = "null", snake, PyNone)
        @@ Opt(mode \in {"camel", "both"}, camel, v2)

\* an author: absent, or with or without a handle and a display name
AuthorShapes ==
    {[present |-> FALSE, handle |-> FALSE, mode |-> "neither"]}
        \cup [present : {TRUE}, handle : BOOLEAN, mode : AliasModes]
AuthorOf(kind, a, plain) ==
    Opt(a.present, "author",
        Mk(kind, Opt(a.handle, "handle", Leaf("'alice'"))
                   @@ Alias(a.mode, "display_name", "displayName",
                            Leaf("'Alice'"), Leaf("'Alice B'"))
                   @@ Opt(plain, "avatar", Leaf("'http://a/1'"))))

\* a record: absent, or with or without its text and creation time
RecordShapes ==
    {[present |-> FALSE, mode |-> "neither"]}
        \cup [present : {TRUE}, mode : AliasModes]
RecordOf(kind, r, plain) ==
    Opt(r.present, "record",
        Mk(kind, Opt(plain, "text", Leaf("'hi'"))
                   @@ Alias(r.mode, "created_at", "createdAt",
                            Leaf("'2024-01-01'"), Leaf("'2024-01-02'"))))

\* an embed: none, a link card, images, a quoted record; typed through
\* "$type" (mappings) or py_type (objects)
EmbedShapes == {"none", "external", "images", "record", "untyped"}
EmbedOf(kind, e) ==
    LET tag == IF kind = "dict" THEN "$type" ELSE "py_type"
        img == Mk(kind, "fullsize" :> Leaf("'http://i/1'"))
    IN  CASE e = "none" -> NoKeys
          [] e = "external" ->
                "embed" :> Mk(kind,
                    tag :> Leaf("'app.bsky.embed.external#view'")
                    @@ "external" :> Mk(kind, "uri" :> Leaf("'http://x'")))
          [] e = "images" ->
                "embed" :> Mk(kind,
                    tag :> Leaf("'app.bsky.embed.images#view'")
                    @@ "images" :> PyList(<<img>>))
          [] e = "record" ->
                "embed" :> Mk(kind,
                    tag :> Leaf("'app.bsky.embed.record#view'"))
          [] e = "untyped" ->
                "embed" :> Mk(kind, "images" :> PyList(<<img, img>>))

\* the reply context of a feed item: none, without a parent, with one
ReplyShapes == {"none", "noparent", "parent"}
ReplyOf(kind, r) ==
    CASE r = "none" -> NoKeys
      [] r = "noparent" -> "reply" :> Mk(kind, "root" :> Leaf("'r'"))
      [] r = "parent" ->
            "reply" :> Mk(kind, "parent" :>
                Mk(kind, "uri" :> Leaf("'at://p'")
                         @@ "author" :> Mk(kind, "handle" :> Leaf("'bob'"))))

\* the post itself
PostOf(kind, plain, mode, a, r, e) ==
    Mk(kind,
       Opt(plain, "uri", Leaf("'at://1'")) @@ Opt(plain, "cid", Leaf("'c1'"))
       @@ AuthorOf(kind, a, plain) @@ RecordOf(kind, r, plain)
       @@ Alias(mode, "like_count", "likeCount", Leaf("5"), Leaf("6"))
       @@ Alias(mode, "repost_count", "repostCount", Leaf("3"), Leaf("4"))
       @@ Alias(mode, "reply_count", "replyCount", Leaf("1"), Leaf("2"))
       @@ Alias(mode, "indexed_at", "indexedAt",
                Leaf("'2024-02-01'"), Leaf("'2024-02-02'"))
       @@ EmbedOf(kind, e))

\* post_data: the post itself, or a feed item (a mapping or an object)
\* holding it under "post", with its reply context
Wrappers == {"bare", "dict", "obj"}
PostDataOf(w, post, kind, rp) ==
    IF w = "bare" THEN post
    ELSE Mk(w, "post" :> post @@ ReplyOf(kind, rp))

\* the posts of the model: every shape of fields without embed and reply,
\* and every embed and reply context on two shapes of fields
PostSources ==
    {PostDataOf(w, PostOf(k, plain, m, a, r, "none"), k, "none") :
        w \in Wrappers, k \in Kinds, plain \in BOOLEAN, m \in AliasModes,
        a \in AuthorShapes, r \in RecordShapes}
    \cup
    {PostDataOf(w, PostOf(k, plain, "snake",
                          [present |-> TRUE, handle |-> TRUE,
                           mode |-> "snake"],
                          [present |-> TRUE, mode |-> "camel"], e), k, rp) :
        w \in Wrappers, k \in Kinds, plain \in BOOLEAN, e \in EmbedShapes,
        rp \in ReplyShapes}

NotificationSources ==
    {Mk(k, Opt(plain, "uri", Leaf("'at://n'"))
           @@ Opt(plain, "cid", Leaf("'c2'"))
           @@ Opt(plain, "reason", Leaf("'like'"))
           @@ Opt(a.present, "author",
                  Mk(k, Opt(a.handle, "handle", Leaf("'alice'"))
                        @@ Alias(a.mode, "display_name", "displayName",
                                 Leaf("'Alice'"), Leaf("'Alice B'"))))
           @@ Opt(r.present, "record",
                  Mk(k, Opt(plain, "text", Leaf("'hi'"))))
           @@ Alias(m, "indexed_at", "indexedAt",
                    Leaf("'2024-02-01'"), Leaf("'2024-02-02'"))
           @@ Alias(m, "is_read", "isRead", Leaf("True"), Leaf("True"))
           @@ Alias(m, "reason_subject", "reasonSubject",
                    Leaf("'at://s'"), Leaf("'at://s2'"))) :
        k \in Kinds, plain \in BOOLEAN, m \in AliasModes,
        a \in AuthorShapes, r \in RecordShapes}

\* format_post(post_data, include_reply_context)
FormatPost ==
    /\ fmtPc = "ready" /\ fmtFn = "post"
    /\ fmtOut' = format_post(fmtIn, fmtCtx)
    /\ fmtPc' = "done"
    /\ UNCHANGED <<fmtFn, fmtIn, fmtCtx>>
    /\ UNCHANGED notFormatVars

\* format_notification(notif)
FormatNotification ==
    /\ fmtPc = "ready" /\ fmtFn = "notification"
    /\ fmtOut' = format_notification(fmtIn)
    /\ fmtPc' = "done"
    /\ UNCHANGED <<fmtFn, fmtIn, fmtCtx>>
    /\ UNCHANGED notFormatVars

FormatNext == FormatPost \/ FormatNotification

(***************************************************************************)
(* bluesky_mcp.py: what the tools pass to the remote API                   *)
(***************************************************************************)
\* min(limit, 100)
MaxPageSize == 100
\* min(depth, 6)
MaxThreadDepth == 6

\* the tools that take a limit
PagedTools == {"get_timeline", "get_author_feed", "get_notifications",
               "search_posts", "search_users"}

\* the limit and depth arguments of the model
Limits == {-1, 0, 1, 6, 7, 25, 100, 101, 500}

\* limit=min(limit, 100)
PageSizeUnclamped(limit) == limit
PageSize(limit) == IF limit < MaxPageSize THEN limit ELSE MaxPageSize

\* depth=min(depth, 6)
ThreadDepth(depth) == IF depth < MaxThreadDepth THEN depth ELSE MaxThreadDepth

\* a strong reference to a post: its uri and its cid
PostRefs == {[uri |-> Leaf("'at://1'"), cid |-> Leaf("'c1'")],
             [uri |-> Leaf("'at://2'"), cid |-> Leaf("'c2'")],
             [uri |-> Leaf("'at://3'"), cid |-> Leaf("'c3'")]}
RefObj(r) == Mk("obj", [uri |-> r.uri, cid |-> r.cid])

\* the reply reference of a post's record: no such attribute, None, or a
\* root and a parent
ReplyFields ==
    {NoKeys, "reply" :> PyNone}
        \cup {"reply" :> Mk("obj", [root |-> RefObj(r), parent |-> RefObj(q)]) :
                r \in PostRefs, q \in PostRefs}

\* thread.post as client.get_post_thread returns it
ThreadPosts ==
    {Mk("obj", [uri |-> p.uri, cid |-> p.cid,
                author |-> Mk("obj", [handle |-> Leaf("'alice'")]),
                record |-> Mk("obj", ("text" :> Leaf("'hi'")) @@ rf)]) :
        p \in PostRefs, rf \in ReplyFields}

\* reply_ref["root"] after lines 293-309
ReplyRootOfParentRef(parent) ==
    LET record == parent.f["record"]
    IN  IF HasAttr(record, "reply") /\ Truthy(record.f["reply"])
        THEN [uri |-> record.f["reply"].f["parent"].f["uri"],
              cid |-> record.f["reply"].f["parent"].f["cid"]]
        ELSE [uri |-> parent.f["uri"], cid |-> parent.f["cid"]]
ReplyRoot(parent) ==
    LET record == parent.f["record"]
    IN  IF HasAttr(record, "reply") /\ Truthy(record.f["reply"])
        THEN [uri |-> record.f["reply"].f["root"].f["uri"],
              cid |-> record.f["reply"].f["root"].f["cid"]]
        ELSE [uri |-> parent.f["uri"], cid |-> parent.f["cid"]]

\* how a call ends when a remote call raises
CallOnRemoteError == OnRemoteError(callOp)

\* client.get_timeline(limit=min(limit, 100), ...) and the like
CallPaged ==
    /\ callPc = "start" /\ callOp \in PagedTools
    /\ callSentLimit' = Append(callSentLimit, PageSize(callArg))
    /\ \E ok \in BOOLEAN :
          callOutcome' = IF ok THEN "returned" ELSE CallOnRemoteError
    /\ callPc' = "done"
    /\ UNCHANGED <<callOp, callArg, callThread, callParent, callRef,
                   callSentReply, callFetches>>
    /\ UNCHANGED notCallVars

\* get_post_thread: client.get_post_thread(uri=post_uri, depth=min(depth, 6))
CallThread ==
    /\ callPc = "start" /\ callOp = "get_post_thread"
    /\ callSentLimit' = Append(callSentLimit, ThreadDepth(callArg))
    /\ callFetches' = callFetches + 1
    /\ \E ok \in BOOLEAN :
          callOutcome' = IF ok THEN "returned" ELSE CallOnRemoteError
    /\ callPc' = "done"
    /\ UNCHANGED <<callOp, callArg, callThread, callParent, callRef,
                   callSentReply>>
    /\ UNCHANGED notCallVars

\* reply_to_post: parent_post = client.get_post_thread(post_uri);
\* parent = parent_post.thread.post
ReplyFetch ==
    /\ callPc = "start" /\ callOp = "reply_to_post"
    /\ callFetches' = callFetches + 1
    /\ \/ /\ callParent' = callThread
          /\ callPc' = "build"
          /\ UNCHANGED callOutcome
       \/ /\ callOutcome' = CallOnRemoteError
          /\ callPc' = "done"
          /\ UNCHANGED callParent
    /\ UNCHANGED <<callOp, callArg, callThread, callRef, callSentLimit,
                   callSentReply>>
    /\ UNCHANGED notCallVars

\* reply_to_post: reply_ref = {...}; if hasattr(parent.record, "reply") ...
ReplyBuild ==
    /\ callPc = "build"
    /\ callRef' = [root |-> ReplyRoot(callParent),
                   parent |-> [uri |-> callParent.f["uri"],
                               cid |-> callParent.f["cid"]]]
    /\ callPc' = "send"
    /\ UNCHANGED <<callOp, callArg, callThread, callParent, callSentLimit,
                   callSentReply, callFetches, callOutcome>>
    /\ UNCHANGED notCallVars

\* reply_to_post: post = client.send_post(text=text, reply_to=reply_ref)
ReplySend ==
    /\ callPc = "send"
    /\ callSentReply' = Append(callSentReply, callRef)
    /\ \E ok \in BOOLEAN :
          callOutcome' = IF ok THEN "returned" ELSE CallOnRemoteError
    /\ callPc' = "done"
    /\ UNCHANGED <<callOp, callArg, callThread, callParent, callRef,
                   callSentLimit, callFetches>>
    /\ UNCHANGED notCallVars

CallNext ==
    CallPaged \/ CallThread \/ ReplyFetch \/ ReplyBuild \/ ReplySend

(***************************************************************************)
(* Specifications                                                          *)
(***************************************************************************)
\* mcp_wrapper.py once main has started both threads; no tool server runs
\* in this process
ProxySpecInit ==
    \* main, lines 17-64
    /\ hostSent = <<>> /\ hostClosed = FALSE
    /\ inRead = 0 /\ inData = <<>> /\ inPc = "read" /\ inExit = "none"
    /\ childStdin = <<>> /\ inFlushed = 0 /\ stdinState = "open"
    /\ childSent = <<>> /\ childState = "running" /\ childRc = <<>>
    /\ outRead = 0 /\ outData = <<>> /\ outPc = "read" /\ outExit = "none"
    /\ hostOut = <<>> /\ outFlushed = 0
    /\ mainPc = "wait" /\ proxyRc = <<>>
    \* bluesky_mcp.py is not running here
    /\ envHandle = <<>> /\ envPassword = <<>>
    /\ client = 0 /\ loggedIn = FALSE
    /\ clientsCreated = 0 /\ loginCalls = 0 /\ loginOk = 0 /\ apiCalls = 0
    /\ started = 0
    /\ pc = [t \in Callers |-> "idle"]
    /\ op = [t \in Callers |-> "none"]
    /\ got = [t \in Callers |-> 0]
    /\ step = [t \in Callers |-> 0]
    /\ remoteFailed = [t \in Callers |-> FALSE]
    /\ outcome = [t \in Callers |-> "none"]
    /\ fmtFn = "none" /\ fmtIn = PyNone /\ fmtCtx = FALSE
    /\ fmtOut = PyNone /\ fmtPc = "done"
    /\ callOp = "none" /\ callArg = 0 /\ callThread = PyNone
    /\ callPc = "done" /\ callParent = PyNone /\ callRef = PyNone
    /\ callSentLimit = <<>> /\ callSentReply = <<>> /\ callFetches = 0
    /\ callOutcome = "none"

ProxySpec == ProxySpecInit /\ [][ProxyNext]_vars

\* bluesky_mcp.py after import, under every setting of the two credentials;
\* no proxy runs in this process
ServerSpecInit ==
    \* os.getenv
    /\ envHandle \in EnvValues /\ envPassword \in EnvValues
    \* class BlueskyClient, lines 48-50
    /\ client = 0 /\ loggedIn = FALSE
    /\ clientsCreated = 0 /\ loginCalls = 0 /\ loginOk = 0 /\ apiCalls = 0
    /\ started = 0
    /\ pc = [t \in Callers |-> "idle"]
    /\ op = [t \in Callers |-> "none"]
    /\ got = [t \in Callers |-> 0]
    /\ step = [t \in Callers |-> 0]
    /\ remoteFailed = [t \in Callers |-> FALSE]
    /\ outcome = [t \in Callers |-> "none"]
    \* mcp_wrapper.py is not running here
    /\ hostSent = <<>> /\ hostClosed = FALSE
    /\ inRead = 0 /\ inData = <<>> /\ inPc = "read" /\ inExit = "none"
    /\ childStdin = <<>> /\ inFlushed = 0 /\ stdinState = "open"
    /\ childSent = <<>> /\ childState = "running" /\ childRc = <<>>
    /\ outRead = 0 /\ outData = <<>> /\ outPc = "read" /\ outExit = "none"
    /\ hostOut = <<>> /\ outFlushed = 0
    /\ mainPc = "wait" /\ proxyRc = <<>>
    /\ fmtFn = "none" /\ fmtIn = PyNone /\ fmtCtx = FALSE
    /\ fmtOut = PyNone /\ fmtPc = "done"
    /\ callOp = "none" /\ callArg = 0 /\ callThread = PyNone
    /\ callPc = "done" /\ callParent = PyNone /\ callRef = PyNone
    /\ callSentLimit = <<>> /\ callSentReply = <<>> /\ callFetches = 0
    /\ callOutcome = "none"

ServerSpec == ServerSpecInit /\ [][ServerNext]_vars

\* bluesky_mcp.py under a host that runs tool functions in parallel
OverlappingServerSpec == ServerSpecInit /\ [][OverlappingServerNext]_vars

\* one call of format_post or format_notification on a source of the model
FormatSpecInit ==
    /\ \/ fmtFn = "post" /\ fmtIn \in PostSources /\ fmtCtx \in BOOLEAN
       \/ /\ fmtFn = "notification" /\ fmtIn \in NotificationSources
          /\ fmtCtx = FALSE
    /\ fmtOut = PyNone /\ fmtPc = "ready"
    \* neither the proxy nor the tools run here
    /\ hostSent = <<>> /\ hostClosed = FALSE
    /\ inRead = 0 /\ inData = <<>> /\ inPc = "read" /\ inExit = "none"
    /\ childStdin = <<>> /\ inFlushed = 0 /\ stdinState = "open"
    /\ childSent = <<>> /\ childState = "running" /\ childRc = <<>>
    /\ outRead = 0 /\ outData = <<>> /\ outPc = "read" /\ outExit = "none"
    /\ hostOut = <<>> /\ outFlushed = 0
    /\ mainPc = "wait" /\ proxyRc = <<>>
    /\ envHandle = <<>> /\ envPassword = <<>>
    /\ client = 0 /\ loggedIn = FALSE
    /\ clientsCreated = 0 /\ loginCalls = 0 /\ loginOk = 0 /\ apiCalls = 0
    /\ started = 0
    /\ pc = [t \in Callers |-> "idle"]
    /\ op = [t \in Callers |-> "none"]
    /\ got = [t \in Callers |-> 0]
    /\ step = [t \in Callers |-> 0]
    /\ remoteFailed = [t \in Callers |-> FALSE]
    /\ outcome = [t \in Callers |-> "none"]
    /\ callOp = "none" /\ callArg = 0 /\ callThread = PyNone
    /\ callPc = "done" /\ callParent = PyNone /\ callRef = PyNone
    /\ callSentLimit = <<>> /\ callSentReply = <<>> /\ callFetches = 0
    /\ callOutcome = "none"

FormatSpec == FormatSpecInit /\ [][FormatNext]_vars

\* one tool call, the client logged in: reply_to_post on every target the
\* remote API may hold, and the tools with a limit or a depth on every
\* argument of the model
CallSpecInit ==
    /\ \/ /\ callOp = "reply_to_post" /\ callArg = 0
          /\ callThread \in ThreadPosts
       \/ /\ callOp \in PagedTools \cup {"get_post_thread"}
          /\ callArg \in Limits
          /\ callThread = PyNone
    /\ callPc = "start" /\ callParent = PyNone /\ callRef = PyNone
    /\ callSentLimit = <<>> /\ callSentReply = <<>> /\ callFetches = 0
    /\ callOutcome = "none"
    \* neither the proxy nor the client singleton nor the formatters run here
    /\ hostSent = <<>> /\ hostClosed = FALSE
    /\ inRead = 0 /\ inData = <<>> /\ inPc = "read" /\ inExit = "none"
    /\ childStdin = <<>> /\ inFlushed = 0 /\ stdinState = "open"
    /\ childSent = <<>> /\ childState = "running" /\ childRc = <<>>
    /\ outRead = 0 /\ outData = <<>> /\ outPc = "read" /\ outExit = "none"
    /\ hostOut = <<>> /\ outFlushed = 0
    /\ mainPc = "wait" /\ proxyRc = <<>>
    /\ envHandle = <<>> /\ envPassword = <<>>
    /\ client = 0 /\ loggedIn = FALSE
    /\ clientsCreated = 0 /\ loginCalls = 0 /\ loginOk = 0 /\ apiCalls = 0
    /\ started = 0
    /\ pc = [t \in Callers |-> "idle"]
    /\ op = [t \in Callers |-> "none"]
    /\ got = [t \in Callers |-> 0]
    /\ step = [t \in Callers |-> 0]
    /\ remoteFailed = [t \in Callers |-> FALSE]
    /\ outcome = [t \in Callers |-> "none"]
    /\ fmtFn = "none" /\ fmtIn = PyNone /\ fmtCtx = FALSE
    /\ fmtOut = PyNone /\ fmtPc = "done"

CallSpec == CallSpecInit /\ [][CallNext]_vars

\* The threads are scheduled: wait() returns once the child has exited,
\* join(timeout=1) returns after at most one second, and close() does not
\* block.  The reads, writes and flushes may block for ever.
FairProxySpec ==
    /\ ProxySpec
    /\ WF_vars(MainWait) /\ WF_vars(MainJoin)
    /\ WF_vars(InClose \/ InCloseFail)

(***************************************************************************)
(* Properties of mcp_wrapper.py                                            *)
(***************************************************************************)
\* the sequence with every 0x0D byte removed
StripCR(s) == SelectSeq(s, LAMBDA b : b # CR)

\* the first n elements of s
Prefix(s, n) == SubSeq(s, 1, n)

\* C1: child -> host.  The bytes written to the host are the bytes read from
\* the child with every 0x0D removed, the others unaltered and in order: at
\* every moment for the bytes forwarded so far (the byte in flight, or the
\* byte an error struck, excepted), and for the child's whole output once
\* the pump has read its end-of-stream, every written byte flushed.
C1_ChildToHostStripsCR ==
    /\ outExit # "error" =>
          hostOut = StripCR(Prefix(childSent,
                        IF outPc = "write" THEN outRead - 1 ELSE outRead))
    /\ outExit = "error" =>
          \E n \in {outRead - 1, outRead} \cap Nat :
              hostOut = StripCR(Prefix(childSent, n))
    /\ outExit = "eof" =>
          /\ hostOut = StripCR(childSent)
          /\ outFlushed = Len(hostOut)

\* a CRLF pair went through: the CR is gone, the LF is kept
C1_Witness ==
    /\ outExit = "eof"
    /\ childSent = <<CR, LF>>
    /\ hostOut = <<LF>>

C3_ExitCodeIsChilds ==
    mainPc = "exited" => proxyRc = childRc

\* C7: on end-of-stream of the host's input the input pump calls close() on
\* the child's stdin and then ends, the child running or not; an error of
\* the close does not escape the pump and does not touch the output pump.
C7_EofClosesChildStdin ==
    /\ [](inPc # "crashed")
    /\ [](inPc = "done" => stdinState # "open")
    /\ [](inExit = "eof" => inPc \in {"close", "done"})
    /\ [][inPc = "close" /\ inPc' # "close"
            => inPc' = "done" /\ outPc' = outPc /\ outExit' = outExit]_vars
    /\ (inExit = "eof") ~> (inPc = "done" \/ ~ProxyAlive)

\* the child had exited, the close raised, and the proxy and the output pump
\* are still there
C7_Witness ==
    /\ inExit = "eof" /\ inPc = "done"
    /\ stdinState = "closefailed"
    /\ childState = "exited"
    /\ outPc = "write" /\ ProxyAlive

\* C8: an I/O error in one pump ends that pump only.  An error in the input
\* pump still closes the child's stdin and leaves the output pump and the
\* main thread where they are; an error in the output pump leaves the input
\* pump and the main thread where they are; no exception escapes; and the
\* proxy exits only after the child has.
C8_ErrorEndsOnlyThatPump ==
    /\ [](inPc # "crashed" /\ outPc # "crashed")
    /\ [](inExit = "error" => inPc \in {"close", "done"})
    /\ [](inExit = "error" /\ inPc = "done" => stdinState # "open")
    /\ [](outExit = "error" => outPc = "done")
    /\ [](mainPc = "exited" => childState = "exited")
    /\ [][inExit # "error" /\ inExit' = "error"
            => outPc' = outPc /\ outExit' = outExit /\ mainPc' = mainPc]_vars
    /\ [][outExit # "error" /\ outExit' = "error"
            => inPc' = inPc /\ inExit' = inExit /\ mainPc' = mainPc]_vars
    /\ [](inExit = "error" /\ outPc = "write" /\ ProxyAlive
            => ENABLED OutWriteStep)
    /\ [](outExit = "error" /\ inPc = "write" /\ ProxyAlive
            /\ childState = "running" => ENABLED InWriteStep)

\* the input pump has ended on an error and closed the child's stdin while
\* the output pump is forwarding a byte
C8_Witness ==
    /\ inExit = "error" /\ inPc = "done" /\ stdinState = "closed"
    /\ outExit = "none" /\ outPc = "write"
    /\ ProxyAlive

\* C9: the proxy never exits before the child has, and once the child has
\* exited the proxy exits, whatever the pumps do.
C9_ExitFollowsChildExit ==
    /\ [](mainPc = "exited" => childState = "exited")
    /\ [](hostClosed /\ childState = "running" => ProxyAlive)
    /\ (childState = "exited") ~> (mainPc = "exited")

\* the proxy has exited with the input pump still blocked in its read and
\* the output pump not ended: the grace period ran out
C9_Witness ==
    /\ mainPc = "exited"
    /\ inPc = "read" /\ ~hostClosed
    /\ outPc = "write"

(***************************************************************************)
(* Properties of bluesky_mcp.py: the client singleton and the tools        *)
(***************************************************************************)
\* a credential that is missing or empty
MissingOrEmpty(v) == v = <<>> \/ v = <<"">>

\* C4: once the handle is authenticated, a failure of a remote API call is
\* returned by the tool as a failure envelope, for every tool; it is never
\* raised to the caller.
C4_RemoteFailureIsEnvelope ==
    \A t \in Callers :
        pc[t] = "done" /\ remoteFailed[t] => outcome[t] = "failure_envelope"

\* C5: with a credential missing or empty, every invocation ends by raising
\* the configuration error, login is never called, no remote API call is
\* issued, no client is handed to a tool and the handle stays
\* unauthenticated.
C5_MissingCredentialsRaise ==
    MissingOrEmpty(envHandle) \/ MissingOrEmpty(envPassword) =>
        /\ loginCalls = 0 /\ apiCalls = 0 /\ ~loggedIn
        /\ \A t \in Callers :
              /\ pc[t] \in {"idle", "get_client", "new_client", "check_login",
                          "done"}
              /\ pc[t] = "done" => outcome[t] = "raised_config"
              /\ got[t] = 0

\* the password is the empty string and two invocations in a row have
\* raised the configuration error
C5_Witness ==
    /\ envHandle = <<"x">> /\ envPassword = <<"">>
    /\ started = 2
    /\ \A t \in Callers : pc[t] = "done" /\ outcome[t] = "raised_config"

\* C6: with invocations one at a time, at most one client object is
\* created, every invocation gets that object, nothing logs in again after
\* a login has succeeded, a tool body runs only when logged in, and a
\* failed login leaves the handle unauthenticated with the same object in
\* place for the next attempt.
C6_OneClientOneLogin ==
    /\ [](clientsCreated <= 1 /\ loginOk <= 1)
    /\ [](\A t \in Callers : got[t] # 0 => got[t] = 1 /\ got[t] = client)
    /\ [](\A t \in Callers : pc[t] = "login" => client = 1 /\ ~loggedIn)
    /\ [](\A t \in Callers : pc[t] = "body" => loggedIn /\ got[t] = 1)
    /\ [](loggedIn => loginOk = 1)
    /\ [][loggedIn => loginCalls' = loginCalls /\ loggedIn']_vars
    /\ [][loginCalls' # loginCalls /\ loginOk' = loginOk
            => ~loggedIn' /\ client' = client]_vars

\* a first login failed, the next invocation logged in on the same object
\* and a third invocation got that object without a login
C6_Witness ==
    /\ loginCalls = 2 /\ loginOk = 1 /\ clientsCreated = 1
    /\ started = 3
    /\ \E t \in Callers : pc[t] = "body" /\ got[t] = 1

\* C14: get_client has no mutual exclusion around the login: while one
\* invocation is inside the login (the remote call made or about to be made,
\* _logged_in not yet set), another invocation that tests _logged_in sees it
\* unset and goes on to the login itself, and an invocation that has gone on
\* to the login can always make the remote login call.
C14_LoginHasNoMutualExclusion ==
    \A t \in Callers : \A u \in Callers \ {t} :
        /\ pc[t] \in {"login", "logged_in"} /\ pc[u] = "check_login"
           /\ ~loggedIn
              => ENABLED (CheckLogin(u) /\ pc'[u] = "login")
        /\ pc[t] \in {"login", "logged_in"} /\ pc[u] = "login"
              => ENABLED LoginOk(u)

\* both invocations saw the handle as not logged in and both logins were
\* made and succeeded before either set _logged_in
C14_Witness ==
    /\ \A t \in Callers : pc[t] = "logged_in"
    /\ ~loggedIn
    /\ loginCalls = 2 /\ loginOk = 2

(***************************************************************************)
(* Properties of format_post and format_notification                       *)
(***************************************************************************)
\* the source carries the field under one of the spellings in `keys`
Carries(x, keys) == x.kind \in {"dict", "obj"} /\ DOMAIN x.f \cap keys # {}

\* the member `key` of a source, None when there is none
Member(x, key) == IF Carries(x, {key}) THEN x.f[key] ELSE PyNone

\* the returned dict has the key and it holds the value
Holds(d, key, value) == key \in DOMAIN d.f /\ d.f[key] = value

\* a field missing under every spelling comes out as its default
DefaultWhenMissing(src, keys, d, key, default) ==
    ~Carries(src, keys) => Holds(d, key, default)

\* the post a post_data stands for
PostIn(post_data) ==
    IF Carries(post_data, {"post"}) THEN post_data.f["post"] ELSE post_data

\* the defaults of a formatted post, the default of author.display_name given
PostDefaults(post, d, displayDefault) ==
    LET author == Member(post, "author")
        record == Member(post, "record")
    IN  /\ DefaultWhenMissing(post, {"uri"}, d, "uri", EmptyStr)
        /\ DefaultWhenMissing(post, {"cid"}, d, "cid", EmptyStr)
        /\ "author" \in DOMAIN d.f
        /\ DefaultWhenMissing(author, {"handle"}, d.f["author"], "handle",
                              EmptyStr)
        /\ DefaultWhenMissing(author, {"display_name", "displayName"},
                              d.f["author"], "display_name", displayDefault)
        /\ DefaultWhenMissing(author, {"avatar"}, d.f["author"], "avatar",
                              EmptyStr)
        /\ DefaultWhenMissing(record, {"text"}, d, "text", EmptyStr)
        /\ DefaultWhenMissing(record, {"created_at", "createdAt"}, d,
                              "created_at", EmptyStr)
        /\ DefaultWhenMissing(post, {"like_count", "likeCount"}, d, "likes",
                              Zero)
        /\ DefaultWhenMissing(post, {"repost_count", "repostCount"}, d,
                              "reposts", Zero)
        /\ DefaultWhenMissing(post, {"reply_count", "replyCount"}, d,
                              "replies", Zero)
        /\ DefaultWhenMissing(post, {"indexed_at", "indexedAt"}, d,
                              "indexed_at", EmptyStr)

\* the defaults of a formatted notification
NotificationDefaults(notif, d) ==
    LET author == Member(notif, "author")
        record == Member(notif, "record")
    IN  /\ DefaultWhenMissing(notif, {"uri"}, d, "uri", EmptyStr)
        /\ DefaultWhenMissing(notif, {"cid"}, d, "cid", EmptyStr)
        /\ DefaultWhenMissing(notif, {"reason"}, d, "reason", EmptyStr)
        /\ "author" \in DOMAIN d.f
        /\ DefaultWhenMissing(author, {"handle"}, d.f["author"], "handle",
                              EmptyStr)
        /\ DefaultWhenMissing(author, {"display_name", "displayName"},
                              d.f["author"], "display_name", EmptyStr)
        /\ DefaultWhenMissing(record, {"text"}, d, "record_text", EmptyStr)
        /\ DefaultWhenMissing(notif, {"indexed_at", "indexedAt"}, d,
                              "indexed_at", EmptyStr)
        /\ DefaultWhenMissing(notif, {"is_read", "isRead"}, d, "is_read",
                              PyFalse)
        /\ DefaultWhenMissing(notif, {"reason_subject", "reasonSubject"}, d,
                              "subject_uri", EmptyStr)

PostKeys == {"uri", "cid", "author", "text", "created_at", "likes",
             "reposts", "replies", "indexed_at"}

RefOf(x) == [uri |-> x.f["uri"], cid |-> x.f["cid"]]

\* the target's record has a reply reference
TargetIsReply ==
    /\ "reply" \in DOMAIN callThread.f["record"].f
    /\ callThread.f["record"].f["reply"] # PyNone

\* C12: once reply_to_post has sent the reply, the parent reference it sent
\* is the target post's own uri/cid; the root reference is the target's own
\* uri/cid when the target's record has no reply reference, and the root
\* declared in that reply reference when it has one; the target was fetched
\* once and nothing else was looked up.
C12_ReplyRefs ==
    callOp = "reply_to_post" /\ callSentReply # <<>> =>
        /\ Len(callSentReply) = 1
        /\ callSentReply[1].parent = RefOf(callThread)
        /\ callSentReply[1].root =
              IF TargetIsReply
              THEN RefOf(callThread.f["record"].f["reply"].f["root"])
              ELSE RefOf(callThread)
        /\ callFetches = 1

\* a reply was sent to a target that is itself a reply, whose declared root
\* is neither the target nor the target's parent
C12_Witness ==
    /\ callOp = "reply_to_post" /\ callPc = "done"
    /\ callOutcome = "returned"
    /\ Len(callSentReply) = 1
    /\ TargetIsReply
    /\ callSentReply[1].root # RefOf(callThread)
    /\ callSentReply[1].root
          # RefOf(callThread.f["record"].f["reply"].f["parent"])
    /\ callSentReply[1].parent = RefOf(callThread)

(***************************************************************************)
(* The limit and the depth passed to the remote API                        *)
(***************************************************************************)
\* a value clamped to a maximum
Clamped(n, max) == IF n > max THEN max ELSE n

\* C13, as claimed: every tool with a page size, fetching a thread included,
\* passes the remote API its argument clamped to 100: 500 arrives as 100 and
\* an argument at or below 100 arrives unchanged.
C13_EveryPageSizeClampedTo100 ==
    callOp \in PagedTools \cup {"get_post_thread"} /\ callPc = "done" =>
        callSentLimit = <<Clamped(callArg, 100)>>

\* C13, amended: the five tools that take a limit pass the remote API the
\* limit clamped to 100 (500 arrives as 100, a limit at or below 100 arrives
\* unchanged); get_post_thread takes no page size: it passes its depth
\* clamped to 6.
C13_LimitClampedTo100DepthTo6 ==
    /\ callOp \in PagedTools /\ callPc = "done" =>
          callSentLimit = <<Clamped(callArg, 100)>>
    /\ callOp = "get_post_thread" /\ callPc = "done" =>
          callSentLimit = <<Clamped(callArg, 6)>>

\* a limit of 500 reached the remote API as 100
C13_Witness ==
    /\ callOp \in PagedTools /\ callPc = "done"
    /\ callArg = 500 /\ callSentLimit = <<100>>

=============================================================================
